---- MODULE Spec2Model ----
(***************************************************************************)
(* Model of hydrate/cluster.py: the Cluster handle (its memoization cache  *)
(* of pod lists, get_components, get_namespaced_pods) and the module-level *)
(* helpers get_first_word, count_first_word and sort_dict_by_value.        *)
(*                                                                         *)
(* A Python str is a sequence of one-character strings, a list a sequence, *)
(* an insertion-ordered dict a sequence of [key, value] records, and the   *)
(* outcome of a call a record: Return(v) or Raise(exc).                     *)
(***************************************************************************)
EXTENDS Integers, Sequences, FiniteSets, TLC

VARIABLES
    cluster_ns,       \* the cluster behind the API: its namespace names, in listing order
    cluster_pods,     \* the cluster behind the API: namespace -> its pod names
    namespaced_pods,  \* handle -> self.namespaced_pods (a dict: namespace -> pod list)
    queried,          \* handle -> namespace -> list_namespaced_pod was called for it
    fetched,          \* handle -> namespace -> <<>> or <<the first list the lister returned>>
    components_seen,  \* handle -> <<>> or <<first get_components result since the cluster changed>>
    input,            \* the arguments of a call of one of the module-level helpers
    last              \* the call made by the latest step: arguments, lister queries, outcome

vars == <<cluster_ns, cluster_pods, namespaced_pods, queried, fetched,
          components_seen, input, last>>

----------------------------------------------------------------------------
(* Bounds of the exploration *)

MaxStrLen == 3
MaxDelimLen == 2
MaxObjs == 4
MaxNsLen == 3
MaxNs == 2
MaxPods == 1

----------------------------------------------------------------------------
(* Strings *)

DASH == <<"-">>
DEFAULT == <<"d","e","f","a","u","l","t">>
KUBE_PUBLIC == <<"k","u","b","e","-","p","u","b","l","i","c">>
KUBE_SYSTEM == <<"k","u","b","e","-","s","y","s","t","e","m">>
DEFAULT_UPPER == <<"D","e","f","a","u","l","t">>
KUBE_DNS == <<"k","u","b","e","-","d","n","s">>
TEAMA_PROD == <<"t","e","a","m","A","-","p","r","o","d">>
TEAMA_DEV == <<"t","e","a","m","A","-","d","e","v">>
TEAMB == <<"t","e","a","m","B">>
WEB_1 == <<"w","e","b","-","1">>
WEB_2 == <<"w","e","b","-","2">>
CACHE_1 == <<"c","a","c","h","e","-","1">>
DASH_X == <<"-","x">>

BSeq(S, n) == UNION {[1..k -> S] : k \in 0..n}

Min(S) == CHOOSE x \in S : \A y \in S : x <= y

----------------------------------------------------------------------------
(* Outcomes of a call *)

Return(v) == [ok |-> TRUE, exc |-> "", val |-> v]
Raise(e) == [ok |-> FALSE, exc |-> e, val |-> <<>>]

\* Component(name): the class lives in hydrate/component.py; it keeps the name.
Component(name) == [name |-> name]

----------------------------------------------------------------------------
(* str.split(sep), as cluster.py uses it *)

\* the least index at which sep occurs in s, 0 when it does not occur
str_find(s, sep) ==
    LET hits == {i \in 1..(Len(s) - Len(sep) + 1) : SubSeq(s, i, i + Len(sep) - 1) = sep}
    IN IF hits = {} THEN 0 ELSE Min(hits)

RECURSIVE split_words(_, _)
split_words(s, sep) ==
    LET i == str_find(s, sep)
    IN IF i = 0 THEN <<s>>
       ELSE <<SubSeq(s, 1, i - 1)>> \o split_words(SubSeq(s, i + Len(sep), Len(s)), sep)

\* str.split raises ValueError("empty separator") for sep == ""
str_split(s, sep) ==
    IF sep = <<>> THEN Raise("ValueError") ELSE Return(split_words(s, sep))

get_first_word_last(string, delimiter) ==
    LET words == str_split(string, delimiter)
    IN IF ~words.ok THEN words ELSE Return(words.val[Len(words.val)])

get_first_word(string, delimiter) ==
    LET words == str_split(string, delimiter)
    IN IF ~words.ok THEN words ELSE Return(words.val[1])

----------------------------------------------------------------------------
(* count_first_word, sort_dict_by_value, process_cluster_objects *)

dict_keys(d) == {d[i].key : i \in 1..Len(d)}
dict_get(d, k, dflt) ==
    IF k \in dict_keys(d) THEN d[CHOOSE i \in 1..Len(d) : d[i].key = k].value ELSE dflt
\* d[k] = v: an existing key keeps its position, a new key goes last
dict_set(d, k, v) ==
    IF k \in dict_keys(d)
    THEN [i \in 1..Len(d) |-> IF d[i].key = k THEN [key |-> k, value |-> v] ELSE d[i]]
    ELSE Append(d, [key |-> k, value |-> v])

RECURSIVE count_loop(_, _)
count_loop(str_list, ret_count) ==
    IF str_list = <<>> THEN ret_count
    ELSE LET words == str_split(Head(str_list), DASH).val
         IN count_loop(Tail(str_list),
                       dict_set(ret_count, words[1], dict_get(ret_count, words[1], 0) + 1))

count_first_word(str_list) == count_loop(str_list, <<>>)

\* sorted(..., reverse=True) is stable: equal keys keep their input order.
\* insert e after every element whose value is >= e's
RECURSIVE insert_desc(_, _)
insert_desc(sorted, e) ==
    IF sorted = <<>> THEN <<e>>
    ELSE IF Head(sorted).value >= e.value
         THEN <<Head(sorted)>> \o insert_desc(Tail(sorted), e)
         ELSE <<e>> \o sorted

RECURSIVE insert_desc_reversed(_, _)
insert_desc_reversed(sorted, e) ==
    IF sorted = <<>> THEN <<e>>
    ELSE IF Head(sorted).value > e.value
         THEN <<Head(sorted)>> \o insert_desc_reversed(Tail(sorted), e)
         ELSE <<e>> \o sorted

RECURSIVE sorted_desc(_, _)
sorted_desc(d, acc) ==
    IF d = <<>> THEN acc ELSE sorted_desc(Tail(d), insert_desc(acc, Head(d)))

RECURSIVE sorted_desc_reversed(_, _)
sorted_desc_reversed(d, acc) ==
    IF d = <<>> THEN acc
    ELSE sorted_desc_reversed(Tail(d), insert_desc_reversed(acc, Head(d)))

\* a sort that reverses an ascending stable sort: ties come out in reverse
sort_dict_by_value_reversed(d) ==
    LET s == sorted_desc_reversed(d, <<>>)
    IN [i \in 1..Len(s) |-> <<s[i].key, s[i].value>>]

sort_dict_by_value(d) ==
    LET s == sorted_desc(d, <<>>)
    IN [i \in 1..Len(s) |-> <<s[i].key, s[i].value>>]

process_cluster_objects(object_list) ==
    LET comp_list == sort_dict_by_value(count_first_word(object_list))
    IN [i \in 1..Len(comp_list) |-> Component(comp_list[i][1])]

----------------------------------------------------------------------------
(* The Cluster handles and the cluster behind the API client *)

Handles == {"h1", "h2"}

\* the namespaces get_namespaced_pods is asked about
PodScopes == {DEFAULT, TEAMB}

\* how a query of the API client ends: it answers, the call raises, or the
\* answer is malformed and reading i.metadata.name raises
Outcomes == {"ok", "ApiException", "AttributeError"}

Cycle(pool, i) == pool[((i - 1) % Len(pool)) + 1]
Prefix(pool, n) == [i \in 1..n |-> Cycle(pool, i)]
Windows(pool, n) ==
    {[k \in 1..m |-> Cycle(pool, i + k - 1)] : i \in 1..Len(pool), m \in 0..n}

NsPool == <<DEFAULT, KUBE_SYSTEM, TEAMA_PROD>>
PodPool == <<WEB_1, CACHE_1, WEB_2>>

NsLists == Windows(NsPool, MaxNs)
PodLists == {Prefix(PodPool, n) : n \in 0..MaxPods}

EmptyDict == [k \in {} |-> <<>>]
dict_store(d, k, v) == [x \in (DOMAIN d) \cup {k} |-> IF x = k THEN v ELSE d[x]]

Query(api, arg, exc, answer) ==
    [api |-> api, arg |-> arg, ok |-> (exc = ""), exc |-> exc, answer |-> answer]

Idle ==
    [op |-> "none", h |-> "", arg |-> <<>>, ok |-> TRUE, exc |-> "", ret |-> <<>>,
     queries |-> <<>>, again |-> FALSE]

NoInput == [string |-> <<>>, delimiter |-> <<>>, object_list |-> <<>>]

\* a get_namespaces that takes the first item's name before the loop: no items, IndexError
get_namespaces_strict(outcome) ==
    IF outcome = "ok"
    THEN [res |-> IF cluster_ns = <<>> THEN Raise("IndexError") ELSE Return(cluster_ns),
          queries |-> <<Query("list_namespace", <<>>, "", cluster_ns)>>]
    ELSE [res |-> Raise(outcome),
          queries |-> <<Query("list_namespace", <<>>, outcome, <<>>)>>]

\* get_namespaces: one list_namespace query, the names in listing order
get_namespaces(outcome) ==
    IF outcome = "ok"
    THEN [res |-> Return(cluster_ns),
          queries |-> <<Query("list_namespace", <<>>, "", cluster_ns)>>]
    ELSE [res |-> Raise(outcome),
          queries |-> <<Query("list_namespace", <<>>, outcome, <<>>)>>]

\* a remove_defaults that compares first words: it drops every kube-* namespace
remove_defaults_kube(namespaces) ==
    LET keep(n) == split_words(n, DASH)[1] \notin {DEFAULT, <<"k","u","b","e">>}
    IN SelectSeq(namespaces, keep)

RECURSIVE remove_defaults(_)
remove_defaults(namespaces) ==
    LET ignore_set == {DEFAULT, KUBE_PUBLIC, KUBE_SYSTEM}
    IN IF namespaces = <<>> THEN <<>>
       ELSE IF Head(namespaces) \notin ignore_set
            THEN <<Head(namespaces)>> \o remove_defaults(Tail(namespaces))
            ELSE remove_defaults(Tail(namespaces))

\* a get_namespaced_pods without the membership test: it queries and stores every time
get_namespaced_pods_refetch(cache, namespace, outcome) ==
    IF outcome = "ok"
    THEN LET pod_list == cluster_pods[namespace]
         IN [res |-> Return(pod_list),
             cache |-> dict_store(cache, namespace, pod_list),
             queries |-> <<Query("list_namespaced_pod", namespace, "", pod_list)>>]
    ELSE [res |-> Raise(outcome), cache |-> cache,
          queries |-> <<Query("list_namespaced_pod", namespace, outcome, <<>>)>>]

\* a get_namespaced_pods that stores a list other than the one it returns
get_namespaced_pods_store_empty(cache, namespace, outcome) ==
    IF namespace \in DOMAIN cache
    THEN [res |-> Return(cache[namespace]), cache |-> cache, queries |-> <<>>]
    ELSE IF outcome = "ok"
         THEN LET pod_list == cluster_pods[namespace]
              IN [res |-> Return(pod_list),
                  cache |-> dict_store(cache, namespace, <<>>),
                  queries |-> <<Query("list_namespaced_pod", namespace, "", pod_list)>>]
         ELSE [res |-> Raise(outcome), cache |-> cache,
               queries |-> <<Query("list_namespaced_pod", namespace, outcome, <<>>)>>]

\* a get_namespaced_pods that stores pod_list before the loop that fills it
get_namespaced_pods_store_early(cache, namespace, outcome) ==
    IF namespace \in DOMAIN cache
    THEN [res |-> Return(cache[namespace]), cache |-> cache, queries |-> <<>>]
    ELSE IF outcome = "ok"
         THEN LET pod_list == cluster_pods[namespace]
              IN [res |-> Return(pod_list),
                  cache |-> dict_store(cache, namespace, pod_list),
                  queries |-> <<Query("list_namespaced_pod", namespace, "", pod_list)>>]
         ELSE [res |-> Raise(outcome),
               cache |-> IF outcome = "AttributeError"
                         THEN dict_store(cache, namespace, <<>>) ELSE cache,
               queries |-> <<Query("list_namespaced_pod", namespace, outcome, <<>>)>>]

\* a get_namespaced_pods that rebinds the dict to the one entry it fetched
get_namespaced_pods_single_entry(cache, namespace, outcome) ==
    IF namespace \in DOMAIN cache
    THEN [res |-> Return(cache[namespace]), cache |-> cache, queries |-> <<>>]
    ELSE IF outcome = "ok"
         THEN LET pod_list == cluster_pods[namespace]
              IN [res |-> Return(pod_list),
                  cache |-> dict_store(EmptyDict, namespace, pod_list),
                  queries |-> <<Query("list_namespaced_pod", namespace, "", pod_list)>>]
         ELSE [res |-> Raise(outcome), cache |-> cache,
               queries |-> <<Query("list_namespaced_pod", namespace, outcome, <<>>)>>]

\* get_namespaced_pods on a handle whose self.namespaced_pods is `cache`
get_namespaced_pods(cache, namespace, outcome) ==
    IF namespace \in DOMAIN cache
    THEN [res |-> Return(cache[namespace]), cache |-> cache, queries |-> <<>>]
    ELSE IF outcome = "ok"
         THEN LET pod_list == cluster_pods[namespace]
              IN [res |-> Return(pod_list),
                  cache |-> dict_store(cache, namespace, pod_list),
                  queries |-> <<Query("list_namespaced_pod", namespace, "", pod_list)>>]
         ELSE [res |-> Raise(outcome), cache |-> cache,
               queries |-> <<Query("list_namespaced_pod", namespace, outcome, <<>>)>>]

\* a get_components that fetches the pods of "default" before it looks at the namespaces
get_components_eager(cache, ns_outcome, pod_outcome) ==
    LET ns == get_namespaces(ns_outcome)
    IN IF ~ns.res.ok
       THEN [res |-> ns.res, cache |-> cache, queries |-> ns.queries]
       ELSE LET namespaces == remove_defaults(ns.res.val)
                p == get_namespaced_pods(cache, DEFAULT, pod_outcome)
            IN [res |-> IF ~p.res.ok THEN p.res
                        ELSE IF namespaces # <<>>
                        THEN Return([i \in 1..Len(namespaces) |->
                                 Component(get_first_word(namespaces[i], DASH).val)])
                        ELSE Return(process_cluster_objects(p.res.val)),
                cache |-> p.cache, queries |-> ns.queries \o p.queries]

\* get_components on a handle whose self.namespaced_pods is `cache`
get_components(cache, ns_outcome, pod_outcome) ==
    LET ns == get_namespaces(ns_outcome)
    IN IF ~ns.res.ok
       THEN [res |-> ns.res, cache |-> cache, queries |-> ns.queries]
       ELSE LET namespaces == remove_defaults(ns.res.val)
            IN IF namespaces # <<>>
               THEN LET words == [i \in 1..Len(namespaces) |->
                                     get_first_word(namespaces[i], DASH)]
                        bad == {i \in 1..Len(words) : ~words[i].ok}
                    IN [res |-> IF bad # {} THEN words[Min(bad)]
                                ELSE Return([i \in 1..Len(words) |->
                                                Component(words[i].val)]),
                        cache |-> cache, queries |-> ns.queries]
               ELSE LET p == get_namespaced_pods(cache, DEFAULT, pod_outcome)
                    IN [res |-> IF ~p.res.ok THEN p.res
                                ELSE Return(process_cluster_objects(p.res.val)),
                        cache |-> p.cache, queries |-> ns.queries \o p.queries]

\* one dict shared by every handle (a class attribute)
set_handle_cache_shared(h, cache) == [g \in DOMAIN namespaced_pods |-> cache]

\* each handle owns the dict its __init__ made: a store changes that handle's only
set_handle_cache(h, cache) == [namespaced_pods EXCEPT ![h] = cache]

----------------------------------------------------------------------------
(* What a step records of the call it made *)

PodQueries(queries, s) ==
    {i \in 1..Len(queries) : queries[i].api = "list_namespaced_pod" /\ queries[i].arg = s}
PodAnswers(queries, s) == {i \in PodQueries(queries, s) : queries[i].ok}

Observe(op, h, arg, r) ==
    /\ queried' = [g \in Handles |-> [s \in PodScopes |->
            queried[g][s] \/ (g = h /\ PodQueries(r.queries, s) # {})]]
    /\ fetched' = [g \in Handles |-> [s \in PodScopes |->
            IF fetched[g][s] = <<>> /\ g = h /\ PodAnswers(r.queries, s) # {}
            THEN <<r.queries[Min(PodAnswers(r.queries, s))].answer>>
            ELSE fetched[g][s]]]
    /\ last' = [op |-> op, h |-> h, arg |-> arg, ok |-> r.res.ok, exc |-> r.res.exc,
                ret |-> r.res.val, queries |-> r.queries,
                again |-> (op = "get_components" /\ components_seen[h] # <<>>)]

----------------------------------------------------------------------------
(* Actions *)

GetNamespacedPods(h, namespace) ==
    \E outcome \in Outcomes :
        LET r == get_namespaced_pods(namespaced_pods[h], namespace, outcome)
        IN /\ namespaced_pods' = set_handle_cache(h, r.cache)
           /\ Observe("get_namespaced_pods", h, namespace, r)
           /\ UNCHANGED <<cluster_ns, cluster_pods, components_seen, input>>

GetComponents(h) ==
    \E ns_outcome \in Outcomes, pod_outcome \in Outcomes :
        LET r == get_components(namespaced_pods[h], ns_outcome, pod_outcome)
        IN /\ namespaced_pods' = set_handle_cache(h, r.cache)
           /\ Observe("get_components", h, <<>>, r)
           /\ components_seen' =
                 IF r.res.ok /\ components_seen[h] = <<>>
                 THEN [components_seen EXCEPT ![h] = <<r.res.val>>]
                 ELSE components_seen
           /\ UNCHANGED <<cluster_ns, cluster_pods, input>>

\* the cluster changes between two calls: a namespace's pods come and go
PodsChange(namespace) ==
    /\ \E pods \in PodLists \ {cluster_pods[namespace]} :
          cluster_pods' = [cluster_pods EXCEPT ![namespace] = pods]
    /\ components_seen' = [h \in Handles |-> <<>>]
    /\ last' = Idle
    /\ UNCHANGED <<cluster_ns, namespaced_pods, queried, fetched, input>>

\* the cluster changes between two calls: namespaces are created and deleted
NamespacesChange ==
    /\ \E names \in NsLists \ {cluster_ns} : cluster_ns' = names
    /\ components_seen' = [h \in Handles |-> <<>>]
    /\ last' = Idle
    /\ UNCHANGED <<cluster_pods, namespaced_pods, queried, fetched, input>>

InitHandles ==
    /\ namespaced_pods = [h \in Handles |-> EmptyDict]
    /\ queried = [h \in Handles |-> [s \in PodScopes |-> FALSE]]
    /\ fetched = [h \in Handles |-> [s \in PodScopes |-> <<>>]]
    /\ components_seen = [h \in Handles |-> <<>>]
    /\ last = Idle

Init ==
    /\ cluster_ns \in NsLists
    /\ cluster_pods \in [PodScopes -> PodLists]
    /\ InitHandles
    /\ input = NoInput

\* one handle, every namespace, a cluster that changes between calls
Next ==
    \/ GetComponents("h1")
    \/ \E namespace \in PodScopes : GetNamespacedPods("h1", namespace)
    \/ \E namespace \in PodScopes : PodsChange(namespace)
    \/ NamespacesChange

Spec == Init /\ [][Next]_vars

\* two handles on one cluster, both asked about the namespace "default"
NextHandles ==
    \/ \E h \in Handles : GetComponents(h)
    \/ \E h \in Handles : GetNamespacedPods(h, DEFAULT)
    \/ PodsChange(DEFAULT)
    \/ NamespacesChange

InitShared ==
    /\ cluster_ns \in NsLists
    /\ cluster_pods \in {pods \in [PodScopes -> PodLists] : pods[TEAMB] = <<>>}
    /\ InitHandles
    /\ input = NoInput

SpecHandles == InitShared /\ [][NextHandles]_vars

----------------------------------------------------------------------------
(* get_components over every short namespace listing *)

NsNames ==
    {DEFAULT, KUBE_PUBLIC, KUBE_SYSTEM, DEFAULT_UPPER, KUBE_DNS, TEAMA_PROD, TEAMA_DEV,
     TEAMB}

InitNs ==
    /\ cluster_ns \in BSeq(NsNames, MaxNsLen)
    /\ cluster_pods = [s \in PodScopes |-> Prefix(PodPool, MaxPods)]
    /\ InitHandles
    /\ input = NoInput

NextNs == GetComponents("h1")

SpecNs == InitNs /\ [][NextNs]_vars

----------------------------------------------------------------------------
(* The module-level helpers, called on their own *)

Chars == {"a", "-", "."}

ObjNames == {<<"a","-","1">>, <<"a","-","2">>, <<"b","-","1">>, <<"b">>, <<"c">>, DASH_X}

InitQuiet ==
    /\ cluster_ns = <<>>
    /\ cluster_pods = [s \in PodScopes |-> <<>>]
    /\ InitHandles

CallGetFirstWord ==
    /\ last.op = "none"
    /\ LET r == get_first_word(input.string, input.delimiter)
       IN last' = [Idle EXCEPT !.op = "get_first_word", !.ok = r.ok, !.exc = r.exc,
                               !.ret = r.val]
    /\ UNCHANGED <<cluster_ns, cluster_pods, namespaced_pods, queried, fetched,
                   components_seen, input>>

InitWord ==
    /\ InitQuiet
    /\ input \in [string : BSeq(Chars, MaxStrLen), delimiter : BSeq(Chars, MaxDelimLen),
                  object_list : {<<>>}]

SpecWord == InitWord /\ [][CallGetFirstWord]_vars

CallProcessClusterObjects ==
    /\ last.op = "none"
    /\ last' = [Idle EXCEPT !.op = "process_cluster_objects",
                            !.ret = process_cluster_objects(input.object_list)]
    /\ UNCHANGED <<cluster_ns, cluster_pods, namespaced_pods, queried, fetched,
                   components_seen, input>>

InitObjects ==
    /\ InitQuiet
    /\ input \in [string : {<<>>}, delimiter : {<<>>},
                  object_list : BSeq(ObjNames, MaxObjs)]

SpecObjects == InitObjects /\ [][CallProcessClusterObjects]_vars

----------------------------------------------------------------------------
(* Properties *)

ReservedNames == {DEFAULT, KUBE_PUBLIC, KUBE_SYSTEM}
NotReserved(name) == name \notin ReservedNames

\* the positions at which d occurs in s (the empty d occurs at every position)
Occurrences(s, d) ==
    {i \in 1..(Len(s) + 1) : i + Len(d) - 1 <= Len(s) /\ SubSeq(s, i, i + Len(d) - 1) = d}

\* the substring before the first occurrence of d, all of s when d does not occur
TokenBefore(s, d) ==
    IF Occurrences(s, d) = {} THEN s
    ELSE SubSeq(s, 1, (CHOOSE i \in Occurrences(s, d) :
                          \A j \in Occurrences(s, d) : i <= j) - 1)

Names(components) == [i \in 1..Len(components) |-> components[i].name]

IsCall(l, op) == l.op = op
NsQueryOk(l) == Len(l.queries) >= 1 /\ l.queries[1].api = "list_namespace" /\ l.queries[1].ok
NsAnswer(l) == l.queries[1].answer
AllReserved(names) == \A i \in 1..Len(names) : names[i] \in ReservedNames
AllQueriesOk(l) == \A i \in 1..Len(l.queries) : l.queries[i].ok

\* C1 as stated: on one handle the lister is called at most once per scope (a scope
\* already queried is never queried again), and every get_namespaced_pods call
\* returns the list that single lister call gave.
C1_AtMostOneListerCall ==
    [][\A h \in Handles, s \in PodScopes :
          /\ (IsCall(last', "get_namespaced_pods") /\ last'.h = h /\ last'.arg = s
               /\ queried[h][s])
                => PodQueries(last'.queries, s) = {}
          /\ (IsCall(last', "get_namespaced_pods") /\ last'.h = h /\ last'.arg = s
               /\ last'.ok)
                => fetched'[h][s] = <<last'.ret>>]_vars

\* C1 amended: on one handle the lister answers at most once per scope: once a
\* lister call for the scope has succeeded no later call of the handle queries that
\* scope again, a get_namespaced_pods call for a scope with no successful lister
\* call yet issues exactly one, and every get_namespaced_pods call that returns
\* gives the list of that one successful lister call.
C1_AtMostOneListerAnswer ==
    [][\A h \in Handles, s \in PodScopes :
          /\ (last'.h = h /\ fetched[h][s] # <<>>) => PodQueries(last'.queries, s) = {}
          /\ (IsCall(last', "get_namespaced_pods") /\ last'.h = h /\ last'.arg = s)
                => /\ fetched[h][s] = <<>>
                        => Cardinality(PodQueries(last'.queries, s)) = 1
                   /\ last'.ok => fetched'[h][s] = <<last'.ret>>
                   /\ fetched[h][s] # <<>> => (last'.ok /\ fetched[h][s] = <<last'.ret>>)]_vars

\* a get_namespaced_pods call answered from the cache, with the list of the one
\* lister call, after the pods of that namespace changed in the cluster
C1_Witness ==
    /\ IsCall(last, "get_namespaced_pods") /\ last.ok /\ last.queries = <<>>
    /\ fetched[last.h][last.arg] = <<last.ret>>
    /\ last.ret # <<>>
    /\ cluster_pods[last.arg] # last.ret

\* C2: a get_components call that returns, made after an earlier get_components
\* call of the same handle returned and with the cluster unchanged since, returns
\* the same sequence of component names as that earlier call.
C2_Idempotent ==
    (IsCall(last, "get_components") /\ last.ok /\ last.again)
        => components_seen[last.h] = <<last.ret>>

\* a repeated get_components call whose pod list came from the cache
C2_Witness ==
    /\ IsCall(last, "get_components") /\ last.ok /\ last.again
    /\ Len(last.queries) = 1 /\ AllReserved(NsAnswer(last))
    /\ last.ret # <<>>

Tokens(names) == {TokenBefore(names[i], DASH) : i \in 1..Len(names)}
Count(names, tok) == Cardinality({i \in 1..Len(names) : TokenBefore(names[i], DASH) = tok})
FirstSeen(names, tok) ==
    CHOOSE i \in 1..Len(names) :
        /\ TokenBefore(names[i], DASH) = tok
        /\ \A j \in 1..(i - 1) : TokenBefore(names[j], DASH) # tok

\* C4: process_cluster_objects returns each distinct first token of its input
\* once, by non-increasing number of occurrences, tokens with equal counts in the
\* order in which they first occur in the input.
C4_RankedByFrequency ==
    IsCall(last, "process_cluster_objects") =>
        LET names == input.object_list
            out == Names(last.ret)
        IN /\ {out[i] : i \in 1..Len(out)} = Tokens(names)
           /\ Len(out) = Cardinality(Tokens(names))
           /\ \A i, j \in 1..Len(out) :
                 i < j => \/ Count(names, out[i]) > Count(names, out[j])
                          \/ /\ Count(names, out[i]) = Count(names, out[j])
                             /\ FirstSeen(names, out[i]) < FirstSeen(names, out[j])

\* three tokens, the most frequent one first seen last, the other two tied
C4_Witness ==
    /\ IsCall(last, "process_cluster_objects")
    /\ Len(last.ret) = 3
    /\ Count(input.object_list, last.ret[1].name) = 2
    /\ FirstSeen(input.object_list, last.ret[1].name) = 3
    /\ Count(input.object_list, last.ret[2].name) = 1
    /\ Count(input.object_list, last.ret[3].name) = 1

PodAnswerEmpty(l) ==
    \E i \in 1..Len(l.queries) :
        l.queries[i].api = "list_namespaced_pod" /\ l.queries[i].ok /\ l.queries[i].answer = <<>>

\* C5 as stated: an empty namespace list or an empty pod list returned by the
\* lister makes get_components return the empty list, without failure.
C5_EmptyGivesEmpty ==
    (/\ IsCall(last, "get_components") /\ AllQueriesOk(last) /\ NsQueryOk(last)
     /\ (NsAnswer(last) = <<>> \/ PodAnswerEmpty(last)))
        => (last.ok /\ last.ret = <<>>)

\* C5 amended: a get_components call whose queries all succeed does not fail,
\* whatever is empty; when the namespace list has no non-reserved name (the empty
\* list included) the result is empty exactly when the pod list of "default"
\* (just fetched, or cached) is empty.
C5_EmptyPodsGiveEmpty ==
    (IsCall(last, "get_components") /\ AllQueriesOk(last))
        => /\ last.ok
           /\ AllReserved(NsAnswer(last))
                 => /\ DEFAULT \in DOMAIN namespaced_pods[last.h]
                    /\ (last.ret = <<>>) <=> (namespaced_pods[last.h][DEFAULT] = <<>>)

\* the lister returns no namespace and no pod: the empty component list
C5_Witness ==
    /\ IsCall(last, "get_components") /\ Len(last.queries) = 2 /\ AllQueriesOk(last)
    /\ NsAnswer(last) = <<>> /\ PodAnswerEmpty(last)
    /\ last.ok /\ last.ret = <<>>

\* C6: a get_components call fails exactly when one of its queries failed, with
\* that query's failure and no component list; the failed query is the last one
\* of the call (nothing is issued after it, it is not issued again), and the cache
\* of the handle has no entry for the namespace whose pod query failed.
C6_FailFast ==
    IsCall(last, "get_components") =>
        LET failed == {i \in 1..Len(last.queries) : ~last.queries[i].ok}
        IN /\ (failed # {}) <=> ~last.ok
           /\ ~last.ok => last.ret = <<>>
           /\ \A i \in failed :
                 /\ i = Len(last.queries)
                 /\ last.exc = last.queries[i].exc
                 /\ \A j \in 1..(i - 1) :
                       ~(/\ last.queries[j].api = last.queries[i].api
                         /\ last.queries[j].arg = last.queries[i].arg)
                 /\ last.queries[i].api = "list_namespaced_pod"
                       => last.queries[i].arg \notin DOMAIN namespaced_pods[last.h]

\* the pod query of "default" fails on a malformed answer, another namespace cached
C6_Witness ==
    /\ IsCall(last, "get_components") /\ ~last.ok
    /\ Len(last.queries) = 2 /\ last.queries[2].exc = "AttributeError"
    /\ DOMAIN namespaced_pods[last.h] = {TEAMB}

C7_Queries ==
    IsCall(last, "get_components") =>
        LET q == last.queries
        IN /\ Len(q) \in {1, 2}
           /\ q[1].api = "list_namespace"
           /\ Cardinality({i \in 1..Len(q) : q[i].api = "list_namespace"}) = 1
           /\ \A i \in 1..Len(q) :
                 q[i].api = "list_namespaced_pod"
                    => (q[i].arg = DEFAULT /\ q[1].ok /\ AllReserved(q[1].answer))

C7_NamespaceBranchFrame ==
    (IsCall(last', "get_components") /\ NsQueryOk(last') /\ ~AllReserved(NsAnswer(last')))
        => namespaced_pods' = namespaced_pods

\* C7: a get_components call issues list_namespace exactly once and first, a pod
\* query only when the namespace list has no non-reserved name, only for
\* "default" and at most once (one or two queries in all), and a call that takes
\* the namespace branch leaves the cache as it was.
C7_QueryOrder == []C7_Queries /\ [][C7_NamespaceBranchFrame]_vars

\* a call that issued the namespace query and then the pod query of "default"
C7_Witness ==
    /\ IsCall(last, "get_components") /\ last.ok
    /\ Len(last.queries) = 2
    /\ last.queries[2].api = "list_namespaced_pod"
    /\ NsAnswer(last) # <<>>

C8_Step ==
    \A h \in Handles :
        /\ \A s \in DOMAIN namespaced_pods[h] :
              s \in DOMAIN namespaced_pods'[h] /\ namespaced_pods'[h][s] = namespaced_pods[h][s]
        /\ \A s \in (DOMAIN namespaced_pods'[h]) \ (DOMAIN namespaced_pods[h]) :
              /\ last'.h = h /\ last'.ok
              /\ fetched[h][s] = <<>>
              /\ PodAnswers(last'.queries, s) # {}
              /\ \/ IsCall(last', "get_namespaced_pods") /\ last'.arg = s
                 \/ IsCall(last', "get_components") /\ s = DEFAULT

\* C8: the cache of a handle starts empty; a scope becomes a key only in a call of
\* that handle that makes the first successful pod request for it; a key is never
\* removed and the list under it never replaced.
C8_CacheOnlyGrows ==
    (\A h \in Handles : DOMAIN namespaced_pods[h] = {}) /\ [][C8_Step]_vars

\* both namespaces cached, a call made, and the cluster holds other pods by now
C8_Witness ==
    /\ DOMAIN namespaced_pods["h1"] = PodScopes
    /\ \A s \in PodScopes : cluster_pods[s] # namespaced_pods["h1"][s]
    /\ last.op # "none" /\ last.h = "h1"

C9_Step ==
    \A h \in Handles :
        /\ (last'.op # "none" /\ last'.h = h)
              => \A g \in Handles \ {h} : namespaced_pods'[g] = namespaced_pods[g]
        /\ \A s \in PodScopes :
              (/\ IsCall(last', "get_namespaced_pods") /\ last'.h = h /\ last'.arg = s
               /\ ~queried[h][s])
                 => PodQueries(last'.queries, s) # {}

\* C9: a call on one handle leaves the cache of every other handle unchanged, and
\* a handle's first request for a scope queries the lister whatever the other
\* handles have cached.
C9_HandlesIndependent == [][C9_Step]_vars

\* the second handle fetched "default" although the first had it cached, and the
\* two handles now hold different lists for it
C9_Witness ==
    /\ IsCall(last, "get_namespaced_pods") /\ last.h = "h2" /\ last.ok
    /\ PodQueries(last.queries, DEFAULT) # {}
    /\ DEFAULT \in DOMAIN namespaced_pods["h1"]
    /\ namespaced_pods["h1"][DEFAULT] # namespaced_pods["h2"][DEFAULT]

\* C10 as stated: for every string and delimiter get_first_word returns, without
\* raising, the substring before the first occurrence of the delimiter, or the
\* whole string when the delimiter does not occur.
C10_FirstWordTotal ==
    IsCall(last, "get_first_word")
        => (last.ok /\ last.ret = TokenBefore(input.string, input.delimiter))

\* C10 amended: for every string and every non-empty delimiter get_first_word
\* returns, without raising, the substring before the first occurrence of the
\* delimiter, or the whole string when the delimiter does not occur (the empty
\* string for the empty string); for the empty delimiter it raises ValueError.
C10_FirstWord ==
    IsCall(last, "get_first_word")
        => IF input.delimiter # <<>>
           THEN /\ last.ok
                /\ last.ret = TokenBefore(input.string, input.delimiter)
                /\ input.string = <<>> => last.ret = <<>>
           ELSE ~last.ok /\ last.exc = "ValueError"

\* a delimiter of two characters that occurs after a non-empty first word
C10_Witness ==
    /\ IsCall(last, "get_first_word") /\ last.ok
    /\ Len(input.delimiter) = 2
    /\ Occurrences(input.string, input.delimiter) # {}
    /\ last.ret # <<>> /\ last.ret # input.string

====
